---- MODULE Spec2Model ----
(***************************************************************************)
(* gonuxt-context-assistant: the weather tools, the concurrent fan-out     *)
(* aggregator (Service.GetMultiCityWeather and the inline fan-out of       *)
(* askMultipleCityWeatherAsyncHandler), the HTTP handlers that derive a    *)
(* timeout context around them, and the study programs.                    *)
(*                                                                         *)
(* One behaviour is one run of one entry point, chosen in Init.            *)
(***************************************************************************)
EXTENDS Naturals, Integers, Sequences, FiniteSets, TLC

\* Longest batch of cities of one request.
MaxCities == 2
\* Longest query, in words.
MaxWords == 2
\* Last second of the study programs' clock.
MaxTime == 14

VARIABLES
    entry,        \* the entry point that runs
    req,          \* the inbound request: [method, bodyOK, cities, query]
    pc,           \* position of the calling goroutine (the handler)
    parentDone,   \* the parent context (r.Context()) has been cancelled
    ctx,          \* the derived context: "none", "live", or its Err()
    timer,        \* the timer of context.WithTimeout
    cancels,      \* number of calls of the cancel function
    cities,       \* the batch handed to the fan-out
    unit,         \* the goroutines spawned so far, one per city, in spawn order
    wg,           \* sync.WaitGroup counter
    resultsChan,  \* buffered channel of cityReport, capacity len(cities)
    closer,       \* the goroutine that waits on wg and closes resultsChan
    reports,      \* the result map
    httpStatus,   \* status returned by the service method (0: not returned)
    resp,         \* the HTTP response written so far
    answer,       \* the answer of the single-city path
    next,         \* index of the sequential loop over cities
    crashed,      \* the process died of an unrecovered panic
    ctxAtCall,    \* ctx.Err() as the fan-out was called ("none": not called)
    now,          \* the study programs' clock, in seconds
    wake,         \* when main's time.Sleep ends
    scen,         \* context_example: the context of each scenario
    task,         \* context_example: the task of each scenario
    dep           \* dependent_goroutines: Task A, Task B and what they hold

vars == <<entry, req, pc, parentDone, ctx, timer, cancels, cities, unit, wg,
          resultsChan, closer, reports, httpStatus, resp, answer, next, crashed, ctxAtCall,
          now, wake, scen, task, dep>>

token == <<parentDone, ctx, timer>>
fanout == <<cities, unit, wg, resultsChan, closer, reports, httpStatus>>
seq == <<answer, next>>
study == <<now, wake, scen, task, dep>>

----------------------------------------------------------------------------
(* Strings and the messages built from them.  A formatted message is the   *)
(* pair of its format and its argument, so two messages are equal exactly  *)
(* when fmt.Sprintf would print the same text.                             *)

Cities == {"Lisbon", "London", "Nowhere"}

\* strings.ToLower on the names the model uses
ToLower(s) ==
    CASE s = "Lisbon"  -> "lisbon"
      [] s = "London"  -> "london"
      [] s = "Nowhere" -> "nowhere"
      [] s = "Porto"   -> "porto"
      [] s = "Berlin"  -> "berlin"
      [] s = "Madrid"  -> "madrid"
      [] s = "Paris"   -> "paris"
      [] s = "New York" -> "new york"
      [] s = "Weather" -> "weather"
      [] OTHER         -> s

\* strings.Title on the names the model uses
Title(s) ==
    CASE s = "lisbon"   -> "Lisbon"
      [] s = "london"   -> "London"
      [] s = "new york" -> "New York"
      [] s = "paris"    -> "Paris"
      [] s = "tokyo"    -> "Tokyo"
      [] s = "porto"    -> "Porto"
      [] s = "berlin"   -> "Berlin"
      [] s = "weather"  -> "Weather"
      [] OTHER          -> s

\* A query is the sequence of its words.  contains(s, substr) of the source
\* is strings.Contains on the lowered strings; the model's substrings are
\* whole words.
QueryWords == {"time", "weather", "lisbon", "London", "porto", "Berlin"}
Queries == UNION {[1..n -> QueryWords] : n \in 0..MaxWords}

contains(q, substr) == \E i \in DOMAIN q : ToLower(q[i]) = ToLower(substr)

\* the table of GetWeather
weatherData ==
    [c \in {"lisbon", "london", "new york", "paris", "tokyo"} |->
        CASE c = "lisbon"   -> "sunny with 28C."
          [] c = "london"   -> "cloudy with 18C."
          [] c = "new york" -> "partly cloudy with 22C."
          [] c = "paris"    -> "a delightful 20C."
          [] c = "tokyo"    -> "rainy with 15C."]

Empty == <<>>
WeatherReport(city, report) == <<"The weather in %s is currently %s", city, report>>
NoInfo(city) == <<"No weather information found for %s.", city>>
CouldNotBeFound(city) == <<"Weather data for %s could not be found.", city>>

IsGenuine(r) == Len(r) = 3

StatusOK == 200
StatusBadRequest == 400
StatusMethodNotAllowed == 405
StatusInternalServerError == 500

----------------------------------------------------------------------------
(* Maps and batches *)

EmptyMap == [k \in {} |-> Empty]

\* a store that replaces the map by the one new entry
MapSetAlone(m, k, v) == [x \in {k} |-> v]

\* a store that keeps the entry a key already has
MapSetKeepFirst(m, k, v) ==
    [x \in DOMAIN m \cup {k} |-> IF x \in DOMAIN m THEN m[x] ELSE v]

\* m[k] = v
MapSet(m, k, v) == [x \in DOMAIN m \cup {k} |-> IF x = k THEN v ELSE m[x]]

Range(s) == {s[i] : i \in DOMAIN s}
Batches == UNION {[1..n -> Cities] : n \in 0..MaxCities}

----------------------------------------------------------------------------
(* context.Context *)

Done(c) == c \in {"Canceled", "DeadlineExceeded"}

\* a context derived from context.Background() instead of the parent
WithTimeoutDetached(parent) == [ctx |-> "live", timer |-> "armed"]

\* context.WithTimeout(parent, d): a child of an already cancelled parent is
\* born cancelled and arms no timer.
WithTimeout(parent) ==
    IF parent THEN [ctx |-> "Canceled", timer |-> "none"]
              ELSE [ctx |-> "live", timer |-> "armed"]

\* the cancel function: the first call cancels and stops the timer, later
\* calls change nothing
CancelCtx(c) == IF c = "live" THEN "Canceled" ELSE c
StopTimer(t) == IF t = "armed" THEN "stopped" ELSE t

----------------------------------------------------------------------------
(* tools.GetWeather *)

\* a select that takes the cancelled case whatever the context
GetWeatherSelectAlwaysCancelled(c) == "cancelled"

\* GetWeather without the case <-ctx.Done()
GetWeatherSelectNoCheck(c) == "default"

\* the select at the top of GetWeather: the branch taken
GetWeatherSelect(c) == IF Done(c) THEN "cancelled" ELSE "default"

\* a cancelled call that reports its city as found
GetWeatherCancelledFound == [report |-> Empty, found |-> TRUE]

\* return "", false
GetWeatherCancelled == [report |-> Empty, found |-> FALSE]

\* a lookup that reads the table with the city as it was written
GetWeatherLookupCaseSensitive(city) ==
    IF city \in DOMAIN weatherData
    THEN [report |-> WeatherReport(city, weatherData[city]), found |-> TRUE]
    ELSE [report |-> NoInfo(city), found |-> FALSE]

\* report, found := weatherData[strings.ToLower(city)] and the two returns
GetWeatherLookup(city) ==
    LET key == ToLower(city) IN
    IF key \in DOMAIN weatherData
    THEN [report |-> WeatherReport(city, weatherData[key]), found |-> TRUE]
    ELSE [report |-> NoInfo(city), found |-> FALSE]

----------------------------------------------------------------------------
(* tools.GetData.  assistant.go calls GetData(ctx, city, tools.GetWeather)  *)
(* and reads (string, error) from it; tools.go holds only an earlier draft  *)
(* of it, in a comment.  The wrapper is modelled after that draft: it       *)
(* returns ctx.Err() when the context is done, and otherwise the report of  *)
(* the lookup, with the "could not be found" text for a city not found.     *)

GetDataSelect(c) == IF Done(c) THEN "cancelled" ELSE "call"

GetDataCancelled == [result |-> Empty, err |-> TRUE]

GetDataReturn(city, r) ==
    IF r.found THEN [result |-> r.report, err |-> FALSE]
               ELSE [result |-> CouldNotBeFound(city), err |-> FALSE]

----------------------------------------------------------------------------
(* study/go_context/context_example.go: its three scenarios *)

Scenarios == {"A", "B", "C"}

NoScenario == [ctx |-> "none", timer |-> "none", deadline |-> 0, cancels |-> 0]
NoTask == [pc |-> "unstarted", branch |-> "none", timer |-> "none", work |-> 0]

ContextExample == "context_example"

\* seconds, as written in the program
WorkSeconds == 5
SleepBeforeCancel == 2
SleepAfterCancel == 1
TimeoutB == 3
SleepB == 4
TimeoutC == 10
SleepC == 6

\* context.WithCancel(context.Background())
WithCancel == [ctx |-> "live", timer |-> "none", deadline |-> 0, cancels |-> 0]

\* context.WithTimeout(context.Background(), d) at time t
WithTimeoutAt(t, d) ==
    [ctx |-> WithTimeout(FALSE).ctx, timer |-> WithTimeout(FALSE).timer,
     deadline |-> t + d, cancels |-> 0]

\* a call of the scenario's cancel function
Cancel(sc) ==
    IF sc.ctx = "none" THEN sc
    ELSE [sc EXCEPT !.ctx = CancelCtx(sc.ctx), !.timer = StopTimer(sc.timer),
                    !.cancels = sc.cancels + 1]

\* the select of performLongRunningTask, entered at time t: the case that is
\* ready then, or "none" when the task has to wait for the first of the two
SelectReady(c) == IF Done(c) THEN "cancelled" ELSE "none"

EnterSelect(tk, c, t) ==
    [pc |-> IF SelectReady(c) = "none" THEN "parked" ELSE "woken",
     branch |-> SelectReady(c), timer |-> "armed", work |-> t + WorkSeconds]

\* a task parked in its select is woken by the first channel to be ready,
\* and takes that case
Wake(tk, branch) ==
    IF tk.pc = "parked" THEN [tk EXCEPT !.pc = "woken", !.branch = branch] ELSE tk

\* study/channels_goroutines/dependent_goroutines.go
Dependent == "dependent_goroutines"

\* for i := 1; i <= 5; i++
NumIDs == 5

\* rand.Intn(1000): the least and the greatest number it returns
UserIDChoices == {0, 999}

\* make(map[int]int)
NoIDs == [k \in {} |-> 0]

\* neither task started: no map, no details
NoDep == [a |-> "unstarted", b |-> "unstarted", userID |-> 0,
          userIDs |-> NoIDs, received |-> NoIDs, ranged |-> {}, userDetails |-> <<>>]

\* the state of the study program's variables while another entry point runs
StudyIdle ==
    /\ now = 0
    /\ wake = 0
    /\ scen = [t \in Scenarios |-> NoScenario]
    /\ task = [t \in Scenarios |-> NoTask]
    /\ dep = NoDep

----------------------------------------------------------------------------
(* Entry points *)

MainAsync == "askMultipleCityWeatherAsyncHandler"   \* main.go
ApiAsync == "AskMultipleCityWeatherAsyncHandler"    \* internal/api
Service == "GetMultiCityWeather"                    \* called directly

AsyncHandlers == {MainAsync, ApiAsync}
FanoutEntries == {MainAsync, ApiAsync, Service}
\* the fan-outs whose units go through GetData
ViaGetData == {ApiAsync, Service}

NoResponse == [code |-> 0, kind |-> "none", reports |-> EmptyMap]
ErrorResponse(code) == [code |-> code, kind |-> "error", reports |-> EmptyMap]
ReportsResponse(code, m) == [code |-> code, kind |-> "reports", reports |-> m]

NoCities == [k \in {"error"} |-> <<"No cities provided in the query.">>]

AsyncRequests ==
    {[method |-> m, bodyOK |-> b, cities |-> c, query |-> <<>>] :
        m \in {"POST", "GET"}, b \in BOOLEAN, c \in Batches}

NewUnit == [pc |-> "pending", report |-> Empty, ok |-> FALSE, looked |-> FALSE]

InitAsync ==
    /\ entry \in AsyncHandlers
    /\ req \in {r \in AsyncRequests : ~r.bodyOK => r.cities = <<>>}
    /\ pc = "start"
    /\ parentDone = FALSE
    /\ ctx = "none"
    /\ timer = "none"
    /\ cancels = 0
    /\ cities = <<>>
    /\ unit = <<>>
    /\ wg = 0
    /\ resultsChan = <<>>
    /\ closer = "none"
    /\ reports = EmptyMap
    /\ httpStatus = 0
    /\ resp = NoResponse
    /\ answer = Empty
    /\ next = 0
    /\ StudyIdle
    /\ crashed = FALSE
    /\ ctxAtCall = "none"

\* Service.GetMultiCityWeather(ctx, cities) called with a context of the
\* caller's, live or already cancelled, and any batch
InitService ==
    /\ entry = Service
    /\ \E c \in Batches :
        /\ req = [method |-> "POST", bodyOK |-> TRUE, cities |-> c, query |-> <<>>]
        /\ cities = c
    /\ pc = "spawn"
    /\ parentDone \in BOOLEAN
    /\ ctx = WithTimeout(parentDone).ctx
    /\ timer = WithTimeout(parentDone).timer
    /\ cancels = 0
    /\ unit = <<>>
    /\ wg = 0
    /\ resultsChan = <<>>
    /\ closer = "none"
    /\ reports = EmptyMap
    /\ httpStatus = 0
    /\ resp = NoResponse
    /\ answer = Empty
    /\ next = 0
    /\ StudyIdle
    /\ crashed = FALSE
    /\ ctxAtCall = ctx

----------------------------------------------------------------------------
(* The query entry points *)

ApiQuery == "AskMultiCityWeatherFromQueryHandler"   \* internal/api
ProcessQuery == "ProcessQuery"                      \* assistant.Service
MainAsk == "askHandler"                             \* main.go
MainQuery == "askMultiCityWeatherHandler"           \* main.go

\* the handlers that take the cities from a query, one lookup after another
QueryHandlers == {ApiQuery, MainQuery}
Sequential == "GetWeatherForCities"                  \* called directly
\* the callers of the sequential loop
SeqEntries == QueryHandlers \cup {Sequential}

HttpHandlers == AsyncHandlers \cup QueryHandlers \cup {MainAsk}
ServerEntries == FanoutEntries \cup SeqEntries \cup {ProcessQuery, MainAsk}
\* the single-city paths
SingleCity == {ProcessQuery, MainAsk}

\* assistant.ExtractCitiesFromQuery
knownCities == <<"Lisbon", "London", "New York", "Paris", "Berlin", "Madrid">>
ExtractCitiesFromQuery(query) ==
    LET Known(c) == contains(query, c) IN SelectSeq(knownCities, Known)

\* assistant.extractCity: the first listed city the query names, capitalised
extractCityList == <<"lisbon", "london", "new york", "paris", "tokyo", "porto">>
extractCity(query) ==
    LET hits == {i \in DOMAIN extractCityList : contains(query, extractCityList[i])} IN
    IF hits = {} THEN ""
    ELSE Title(extractCityList[CHOOSE i \in hits : \A j \in hits : i <= j])

\* main.go's extractCity: what follows the first "weather " of the lowered
\* query, each word capitalised by strings.Title.  (The longer keywords,
\* "weather in " and the like, need a word the model's queries do not have.)
RECURSIVE JoinTitle(_)
JoinTitle(ws) ==
    IF Len(ws) = 0 THEN ""
    ELSE IF Len(ws) = 1 THEN Title(ToLower(ws[1]))
    ELSE Title(ToLower(ws[1])) \o " " \o JoinTitle(Tail(ws))

mainExtractCity(query) ==
    LET at == {i \in DOMAIN query : ToLower(query[i]) = "weather" /\ i < Len(query)} IN
    IF at = {} THEN ""
    ELSE JoinTitle(SubSeq(query, (CHOOSE i \in at : \A j \in at : i <= j) + 1,
                          Len(query)))

\* the city of a single-city request
CityOf(query) == IF entry = MainAsk THEN mainExtractCity(query) ELSE extractCity(query)

\* weatherReport, _ := tools.GetWeather(ctx, city); answer = weatherReport
AskAnswer(r) == r.report

AnswerResponse(code) == [code |-> code, kind |-> "answer", reports |-> EmptyMap]

DateTime == <<"Current time is %s">>
PleaseSpecify == <<"Please specify a city for weather information.">>
Hello == <<"Hello! I am a simple assistant.">>

\* the report stored as GetWeather returned it
CitiesReportAsReturned(city, r) == r.report

\* what GetWeatherForCities stores for a city, from GetWeather's (report, found)
CitiesReport(city, r) == IF r.found THEN r.report ELSE CouldNotBeFound(city)

\* an error returned when the token has fired
GetWeatherForCitiesErrOnCancel == Done(ctx)

\* the error GetWeatherForCities returns: always nil
GetWeatherForCitiesErr == FALSE

InitQuery ==
    /\ entry \in QueryHandlers \cup {MainAsk}
    /\ req \in {[method |-> m, bodyOK |-> b, cities |-> <<>>, query |-> q] :
                   m \in {"POST", "GET"}, b \in BOOLEAN, q \in Queries}
    /\ ~req.bodyOK => req.query = <<>>
    /\ pc = "method"
    /\ parentDone = FALSE
    /\ ctx = "none"
    /\ timer = "none"
    /\ cancels = 0
    /\ cities = <<>>
    /\ unit = <<>>
    /\ wg = 0
    /\ resultsChan = <<>>
    /\ closer = "none"
    /\ reports = EmptyMap
    /\ httpStatus = 0
    /\ resp = NoResponse
    /\ answer = Empty
    /\ next = 0
    /\ StudyIdle
    /\ crashed = FALSE
    /\ ctxAtCall = "none"

\* Service.ProcessQuery(ctx, query) called with the request's context
\* GetWeatherForCities(ctx, cities) called with any list and any token
InitSequential ==
    /\ entry = Sequential
    /\ \E c \in Batches :
        /\ req = [method |-> "POST", bodyOK |-> TRUE, cities |-> c, query |-> <<>>]
        /\ cities = c
    /\ pc = "loop"
    /\ parentDone \in BOOLEAN
    /\ ctx = WithTimeout(parentDone).ctx
    /\ timer = WithTimeout(parentDone).timer
    /\ cancels = 0
    /\ unit = <<>>
    /\ wg = 0
    /\ resultsChan = <<>>
    /\ closer = "none"
    /\ reports = EmptyMap
    /\ httpStatus = 0
    /\ resp = NoResponse
    /\ answer = Empty
    /\ next = 1
    /\ StudyIdle
    /\ crashed = FALSE
    /\ ctxAtCall = ctx

InitProcessQuery ==
    /\ entry = ProcessQuery
    /\ req \in {[method |-> "POST", bodyOK |-> TRUE, cities |-> <<>>, query |-> q] :
                   q \in Queries}
    /\ pc = "classify"
    /\ parentDone \in BOOLEAN
    /\ ctx = "none"
    /\ timer = "none"
    /\ cancels = 0
    /\ cities = <<>>
    /\ unit = <<>>
    /\ wg = 0
    /\ resultsChan = <<>>
    /\ closer = "none"
    /\ reports = EmptyMap
    /\ httpStatus = 0
    /\ resp = NoResponse
    /\ answer = Empty
    /\ next = 0
    /\ StudyIdle
    /\ crashed = FALSE
    /\ ctxAtCall = "none"

----------------------------------------------------------------------------
(* The context's own events *)

\* the client goes away: r.Context() is cancelled, and with it its children
ParentCancel ==
    /\ ~crashed
    /\ entry \in ServerEntries
    /\ ~parentDone
    /\ pc # "done"
    /\ parentDone' = TRUE
    /\ ctx' = CancelCtx(ctx)
    /\ timer' = StopTimer(timer)
    /\ UNCHANGED <<entry, req, pc, cancels, fanout, resp, seq, crashed, ctxAtCall, study>>

\* the timeout elapses
TimerFire ==
    /\ ~crashed
    /\ timer = "armed"
    /\ timer' = "fired"
    /\ ctx' = IF ctx = "live" THEN "DeadlineExceeded" ELSE ctx
    /\ UNCHANGED <<entry, req, pc, parentDone, cancels, fanout, resp, seq, crashed, ctxAtCall, study>>

----------------------------------------------------------------------------
(* The async handler, up to the fan-out *)

\* ctx, cancel := context.WithTimeout(r.Context(), 5*time.Second); defer cancel()
\* (the query handler and ProcessQuery derive theirs later, 6 s and 3 s)
Derive ==
    /\ ~crashed
    /\ \/ entry \in AsyncHandlers /\ pc = "start"
       \/ entry \in QueryHandlers \cup {ProcessQuery, MainAsk} /\ pc = "derive"
    /\ ctx' = WithTimeout(parentDone).ctx
    /\ timer' = WithTimeout(parentDone).timer
    /\ pc' = CASE entry \in AsyncHandlers -> "method"
               [] entry \in QueryHandlers -> "extract"
               [] entry = ProcessQuery -> "getdata"
               [] entry = MainAsk -> "getweather"
    /\ UNCHANGED <<entry, req, parentDone, cancels, fanout, resp, seq, crashed, ctxAtCall, study>>

CheckMethod ==
    /\ ~crashed
    /\ entry \in HttpHandlers
    /\ pc = "method"
    /\ IF req.method # "POST"
       THEN /\ resp' = ErrorResponse(StatusMethodNotAllowed)
            /\ pc' = "exit"
       ELSE /\ pc' = "decode"
            /\ UNCHANGED resp
    /\ UNCHANGED <<entry, req, token, cancels, fanout, seq, crashed, ctxAtCall, study>>

Decode ==
    /\ ~crashed
    /\ entry \in HttpHandlers
    /\ pc = "decode"
    /\ IF ~req.bodyOK
       THEN /\ resp' = ErrorResponse(StatusBadRequest)
            /\ pc' = "exit"
            /\ UNCHANGED cities
       ELSE /\ cities' = req.cities
            /\ pc' = IF entry = MainAsk THEN "classify" ELSE "validate"
            /\ UNCHANGED resp
    /\ UNCHANGED <<entry, req, token, cancels, unit, wg, resultsChan, closer,
                   reports, httpStatus, seq, crashed, ctxAtCall, study>>

\* the answer to an empty query: http.Error(..., 400) in the api package,
\* reports["error"] = "No cities provided in the query." with 200 in main.go
EmptyQueryResponse ==
    IF entry = MainQuery THEN ReportsResponse(StatusOK, NoCities)
                         ELSE ErrorResponse(StatusBadRequest)

\* len(reqBody.Cities) == 0, or len(reqBody.Query) == 0 in the query handlers
Validate ==
    /\ ~crashed
    /\ entry \in HttpHandlers
    /\ pc = "validate"
    /\ IF entry \in QueryHandlers
       THEN IF Len(req.query) = 0
            THEN /\ resp' = EmptyQueryResponse
                 /\ pc' = "exit"
                 /\ UNCHANGED ctxAtCall
            ELSE /\ pc' = "derive"
                 /\ UNCHANGED <<resp, ctxAtCall, study>>
       ELSE IF Len(cities) = 0
            THEN /\ resp' = ReportsResponse(StatusBadRequest, NoCities)
                 /\ pc' = "exit"
                 /\ UNCHANGED ctxAtCall
            ELSE /\ pc' = "spawn"
                 /\ ctxAtCall' = ctx
                 /\ UNCHANGED resp
    /\ UNCHANGED <<entry, req, token, cancels, fanout, seq, crashed, study>>

----------------------------------------------------------------------------
(* The fan-out: the calling goroutine *)

\* a loop that takes one turn more than there are cities
MoreCitiesOffByOne == Len(unit) <= Len(cities)

\* for _, city := range cities: there is a city left to start a goroutine for
MoreCities == Len(unit) < Len(cities)

\* a range loop that ends as soon as the channel is empty
RangeEndsOnEmpty == resultsChan = <<>>

\* for res := range resultsChan ends once the channel is closed and drained
RangeEnds == resultsChan = <<>> /\ closer = "closed"

\* a status that fails the batch when a unit came back with an error
BatchStatusByOutcome ==
    IF \E i \in DOMAIN unit : ~unit[i].ok THEN StatusInternalServerError ELSE StatusOK

\* return reports, http.StatusOK
BatchStatus == StatusOK

\* a return that runs no deferred cancel
DeferredCancelDropped == FALSE

\* defer cancel() was reached, right after the context was derived
DeferredCancel == ctx # "none"

\* one turn of the loop over cities: wg.Add(1); go func(currentCity) {...}(city)
Spawn ==
    /\ ~crashed
    /\ entry \in FanoutEntries
    /\ pc = "spawn"
    /\ MoreCities
    /\ wg' = wg + 1
    /\ unit' = Append(unit, NewUnit)
    /\ UNCHANGED <<entry, req, pc, token, cancels, cities, resultsChan, closer,
                   reports, httpStatus, resp, seq, crashed, ctxAtCall, study>>

\* go func() { wg.Wait(); close(resultsChan) }()
SpawnCloser ==
    /\ ~crashed
    /\ entry \in FanoutEntries
    /\ pc = "spawn"
    /\ ~MoreCities
    /\ closer' = "waiting"
    /\ pc' = "collect"
    /\ UNCHANGED <<entry, req, token, cancels, cities, unit, wg, resultsChan,
                   reports, httpStatus, resp, seq, crashed, ctxAtCall, study>>

\* one turn of: for res := range resultsChan { reports[res.City] = res.Report }
Receive ==
    /\ ~crashed
    /\ entry \in FanoutEntries
    /\ pc = "collect"
    /\ resultsChan # <<>>
    /\ reports' = MapSet(reports, Head(resultsChan).City, Head(resultsChan).Report)
    /\ resultsChan' = Tail(resultsChan)
    /\ UNCHANGED <<entry, req, pc, token, cancels, cities, unit, wg, closer,
                   httpStatus, resp, seq, crashed, ctxAtCall, study>>

\* the range loop ends on the closed, drained channel
CollectEnd ==
    /\ ~crashed
    /\ entry \in FanoutEntries
    /\ pc = "collect"
    /\ RangeEnds
    /\ httpStatus' = IF entry \in ViaGetData THEN BatchStatus ELSE httpStatus
    /\ pc' = IF entry = Service THEN "done" ELSE "respond"
    /\ UNCHANGED <<entry, req, token, cancels, cities, unit, wg, resultsChan,
                   closer, reports, resp, seq, crashed, ctxAtCall, study>>

\* a Wait that does not wait
WaitReturnsAtOnce == TRUE

\* a Wait that returns while one goroutine has still to call Done
WaitReturnsWithOneLeft == wg <= 1

\* wg.Wait() returns once the counter is zero
WaitReturns == wg = 0

\* wg.Wait() returns once the counter is zero; close(resultsChan)
CloserClose ==
    /\ ~crashed
    /\ closer = "waiting"
    /\ WaitReturns
    /\ closer' = "closed"
    /\ UNCHANGED <<entry, req, pc, token, cancels, cities, unit, wg, resultsChan,
                   reports, httpStatus, resp, seq, crashed, ctxAtCall, study>>

\* (the query handler answers 500 when the service did not return 200)
Respond ==
    /\ ~crashed
    /\ entry \in HttpHandlers
    /\ pc = "respond"
    /\ resp' = CASE entry = MainAsync -> ReportsResponse(StatusOK, reports)
                 [] entry = ApiAsync -> ReportsResponse(httpStatus, reports)
                 [] entry \in QueryHandlers ->
                      IF httpStatus # StatusOK
                      THEN ErrorResponse(StatusInternalServerError)
                      ELSE ReportsResponse(httpStatus, reports)
                 [] entry = MainAsk -> AnswerResponse(StatusOK)
    /\ pc' = "exit"
    /\ UNCHANGED <<entry, req, token, cancels, fanout, seq, crashed, ctxAtCall, study>>

\* the deferred calls run as the handler returns: cancel() if it was deferred
\* (ProcessQuery returns (answer, http.StatusOK) on every path)
Return ==
    /\ ~crashed
    /\ entry \in HttpHandlers \cup {ProcessQuery}
    /\ pc = "exit"
    /\ IF DeferredCancel
       THEN /\ cancels' = cancels + 1
            /\ ctx' = CancelCtx(ctx)
            /\ timer' = StopTimer(timer)
       ELSE UNCHANGED <<cancels, ctx, timer>>
    /\ httpStatus' = IF entry = ProcessQuery THEN StatusOK ELSE httpStatus
    /\ pc' = "done"
    /\ UNCHANGED <<entry, req, parentDone, cities, unit, wg, resultsChan, closer,
                   reports, resp, seq, crashed, ctxAtCall, study>>

----------------------------------------------------------------------------
(* The fan-out: unit i, the goroutine of cities[i] *)

\* a step of one unit that leaves its outcome in every unit
SetUnitAll(i, u) == [j \in DOMAIN unit |-> u]

\* the step of unit i: its own locals change, no other unit's
SetUnit(i, u) == [unit EXCEPT ![i] = u]

\* the goroutine's argument read from the loop variable the goroutines share
currentCityShared(i) == cities[Len(unit)]

\* go func(currentCity string) {...}(city): goroutine i has its own city
currentCity(i) == cities[i]

\* the report sent as the lookup returned it
MainReportAsReturned(city, r) == r.report

\* if !found { weatherReport = "... could not be found." }   (main.go)
MainReport(city, r) == IF r.found THEN r.report ELSE CouldNotBeFound(city)

\* the result sent as GetData returned it
ServiceReportAsReturned(city, d) == d.result

\* if err != nil { result = "... could not be found." }   (GetMultiCityWeather)
ServiceReport(city, d) == IF d.err THEN CouldNotBeFound(city) ELSE d.result

\* the report unit u sends for its city, from what its call returned
SentReport(city, u) ==
    IF entry \in ViaGetData
    THEN ServiceReport(city, [result |-> u.report, err |-> ~u.ok])
    ELSE MainReport(city, [report |-> u.report, found |-> u.ok])

\* a call whose result is stored while the unit goes on running
ReturnedStillRunning(u, city, r) ==
    [u EXCEPT !.report = r.report, !.ok = r.found]

\* a unit that goes back to call again when its city was not found
ReturnedRetry(u, city, r) ==
    [u EXCEPT !.pc = IF r.found THEN "returned" ELSE "pending",
              !.report = r.report, !.ok = r.found]

\* the unit once its call has returned: GetWeather's (report, found) in
\* main.go, GetData's (result, err = nil) in GetMultiCityWeather
Returned(u, city, r) ==
    IF entry \in ViaGetData
    THEN [u EXCEPT !.pc = "returned",
                   !.report = GetDataReturn(city, r).result,
                   !.ok = ~GetDataReturn(city, r).err]
    ELSE [u EXCEPT !.pc = "returned", !.report = r.report, !.ok = r.found]

\* GetData's select (GetMultiCityWeather only)
UnitGetData(i) ==
    /\ ~crashed
    /\ entry \in ViaGetData
    /\ unit[i].pc = "pending"
    /\ unit' = SetUnit(i,
         IF GetDataSelect(ctx) = "cancelled"
         THEN [unit[i] EXCEPT !.pc = "returned",
                              !.report = GetDataCancelled.result,
                              !.ok = ~GetDataCancelled.err]
         ELSE [unit[i] EXCEPT !.pc = "call"])
    /\ UNCHANGED <<entry, req, pc, token, cancels, cities, wg, resultsChan,
                   closer, reports, httpStatus, resp, seq, crashed, ctxAtCall, study>>

\* GetWeather's select
UnitGetWeather(i) ==
    /\ ~crashed
    /\ unit[i].pc = (IF entry \in ViaGetData THEN "call" ELSE "pending")
    /\ unit' = SetUnit(i,
         IF GetWeatherSelect(ctx) = "cancelled"
         THEN Returned(unit[i], currentCity(i), GetWeatherCancelled)
         ELSE [unit[i] EXCEPT !.pc = "lookup"])
    /\ UNCHANGED <<entry, req, pc, token, cancels, cities, wg, resultsChan,
                   closer, reports, httpStatus, resp, seq, crashed, ctxAtCall, study>>

\* GetWeather's default branch: the table lookup
UnitLookup(i) ==
    /\ ~crashed
    /\ unit[i].pc = "lookup"
    /\ unit' = SetUnit(i,
         [Returned(unit[i], currentCity(i), GetWeatherLookup(currentCity(i)))
             EXCEPT !.looked = TRUE])
    /\ UNCHANGED <<entry, req, pc, token, cancels, cities, wg, resultsChan,
                   closer, reports, httpStatus, resp, seq, crashed, ctxAtCall, study>>

\* a buffer one slot short of the number of cities
CapacityOneShort == Len(cities) - 1

\* make(chan cityReport, len(cities)): the buffer holds one result per city
Capacity == Len(cities)

\* resultsChan <- cityReport{City, Report}: blocks while the buffer is full,
\* panics on a closed channel
UnitSend(i) ==
    /\ ~crashed
    /\ unit[i].pc = "returned"
    /\ IF closer = "closed"
       THEN /\ crashed' = TRUE
            /\ UNCHANGED <<resultsChan, unit>>
       ELSE /\ Len(resultsChan) < Capacity
            /\ resultsChan' = Append(resultsChan,
                   [City |-> currentCity(i),
                    Report |-> SentReport(currentCity(i), unit[i])])
            /\ unit' = SetUnit(i, [unit[i] EXCEPT !.pc = "sent"])
            /\ UNCHANGED crashed
    /\ UNCHANGED <<entry, req, pc, token, cancels, cities, wg, closer, reports,
                   httpStatus, resp, seq, ctxAtCall, study>>

\* a goroutine that ends without calling Done
UnitDoneForgotten(i) ==
    /\ ~crashed
    /\ unit[i].pc = "sent"
    /\ unit' = SetUnit(i, [unit[i] EXCEPT !.pc = "done"])
    /\ UNCHANGED <<entry, req, pc, token, cancels, cities, wg, resultsChan, closer,
                   reports, httpStatus, resp, seq, crashed, ctxAtCall, study>>

\* the deferred wg.Done()
UnitDone(i) ==
    /\ ~crashed
    /\ unit[i].pc = "sent"
    /\ wg' = wg - 1
    /\ unit' = SetUnit(i, [unit[i] EXCEPT !.pc = "done"])
    /\ UNCHANGED <<entry, req, pc, token, cancels, cities, resultsChan, closer,
                   reports, httpStatus, resp, seq, crashed, ctxAtCall, study>>

\* The lookup handed to GetData fails with a panic.  The goroutine has no
\* recover of its own (its only deferred call is wg.Done), and the handler's
\* recover runs on another goroutine: the runtime ends the process.
UnitPanic(i) ==
    /\ ~crashed
    /\ entry \in ViaGetData
    /\ unit[i].pc = "call"
    /\ crashed' = TRUE
    /\ UNCHANGED <<entry, req, pc, token, cancels, fanout, resp, seq, ctxAtCall, study>>

----------------------------------------------------------------------------
(* The sequential batch: GetWeatherForCitiesFromQuery and GetWeatherForCities *)

\* cities := ExtractCitiesFromQuery(query); reports := make(map[string]string)
Extract ==
    /\ ~crashed
    /\ entry \in QueryHandlers
    /\ pc = "extract"
    /\ cities' = ExtractCitiesFromQuery(req.query)
    /\ next' = 1
    /\ pc' = "loop"
    /\ UNCHANGED <<entry, req, token, cancels, unit, wg, resultsChan, closer,
                   reports, httpStatus, resp, answer, crashed, ctxAtCall, study>>

\* one turn of the loop, as far as GetWeather's select
SeqGetWeather ==
    /\ ~crashed
    /\ entry \in SeqEntries
    /\ pc = "loop"
    /\ next <= Len(cities)
    /\ IF GetWeatherSelect(ctx) = "cancelled"
       THEN /\ reports' = MapSet(reports, cities[next],
                                 CitiesReport(cities[next], GetWeatherCancelled))
            /\ next' = next + 1
            /\ UNCHANGED pc
       ELSE /\ pc' = "lookup"
            /\ UNCHANGED <<reports, next>>
    /\ UNCHANGED <<entry, req, token, cancels, cities, unit, wg, resultsChan,
                   closer, httpStatus, resp, answer, crashed, ctxAtCall, study>>

\* GetWeather's default branch, and the store into the map
SeqLookup ==
    /\ ~crashed
    /\ entry \in SeqEntries
    /\ pc = "lookup"
    /\ reports' = MapSet(reports, cities[next],
                         CitiesReport(cities[next], GetWeatherLookup(cities[next])))
    /\ next' = next + 1
    /\ pc' = "loop"
    /\ UNCHANGED <<entry, req, token, cancels, cities, unit, wg, resultsChan,
                   closer, httpStatus, resp, answer, crashed, ctxAtCall, study>>

\* return reports, nil; the service turns an error into 500, nil into 200
SeqReturn ==
    /\ ~crashed
    /\ entry \in SeqEntries
    /\ pc = "loop"
    /\ next > Len(cities)
    /\ httpStatus' = IF GetWeatherForCitiesErr THEN StatusInternalServerError
                                               ELSE StatusOK
    /\ pc' = IF entry = Sequential THEN "done" ELSE "respond"
    /\ UNCHANGED <<entry, req, token, cancels, cities, unit, wg, resultsChan,
                   closer, reports, resp, seq, crashed, ctxAtCall, study>>

----------------------------------------------------------------------------
(* Service.ProcessQuery *)

\* where a single-city path goes once it has its answer: ProcessQuery
\* returns it, askHandler writes its response
Answered == IF entry = MainAsk THEN "respond" ELSE "exit"

Classify ==
    /\ ~crashed
    /\ entry \in SingleCity
    /\ pc = "classify"
    /\ IF contains(req.query, "time") \/ contains(req.query, "date")
       THEN /\ answer' = DateTime
            /\ pc' = Answered
            /\ UNCHANGED cities
       ELSE IF contains(req.query, "weather")
            THEN IF CityOf(req.query) # ""
                 THEN /\ cities' = <<CityOf(req.query)>>
                      /\ pc' = "derive"
                      /\ UNCHANGED answer
                 ELSE /\ answer' = PleaseSpecify
                      /\ pc' = Answered
                      /\ UNCHANGED cities
            ELSE /\ answer' = Hello
                 /\ pc' = Answered
                 /\ UNCHANGED cities
    /\ UNCHANGED <<entry, req, token, cancels, unit, wg, resultsChan, closer,
                   reports, httpStatus, resp, next, crashed, ctxAtCall, study>>

\* weatherReport, _ := tools.GetData(ctx, city, tools.GetWeather): its select
PQGetData ==
    /\ ~crashed
    /\ entry = ProcessQuery
    /\ pc = "getdata"
    /\ IF GetDataSelect(ctx) = "cancelled"
       THEN /\ answer' = GetDataCancelled.result
            /\ pc' = "exit"
       ELSE /\ pc' = "getweather"
            /\ UNCHANGED answer
    /\ UNCHANGED <<entry, req, token, cancels, fanout, resp, next, crashed, ctxAtCall, study>>

\* the answer of a single-city path, from GetWeather's (report, found)
SingleAnswer(city, r) ==
    IF entry = MainAsk THEN AskAnswer(r) ELSE GetDataReturn(city, r).result

PQGetWeather ==
    /\ ~crashed
    /\ entry \in SingleCity
    /\ pc = "getweather"
    /\ IF GetWeatherSelect(ctx) = "cancelled"
       THEN /\ answer' = SingleAnswer(cities[1], GetWeatherCancelled)
            /\ pc' = Answered
       ELSE /\ pc' = "lookup"
            /\ UNCHANGED answer
    /\ UNCHANGED <<entry, req, token, cancels, fanout, resp, next, crashed, ctxAtCall, study>>

PQLookup ==
    /\ ~crashed
    /\ entry \in SingleCity
    /\ pc = "lookup"
    /\ answer' = SingleAnswer(cities[1], GetWeatherLookup(cities[1]))
    /\ pc' = Answered
    /\ UNCHANGED <<entry, req, token, cancels, fanout, resp, next, crashed, ctxAtCall, study>>

----------------------------------------------------------------------------
(* study/go_context/context_example.go *)

server == <<req, parentDone, ctx, timer, cancels, cities, unit, wg, resultsChan,
            closer, reports, httpStatus, resp, answer, next, crashed, ctxAtCall>>

InitContextExample ==
    /\ entry = ContextExample
    /\ req = [method |-> "POST", bodyOK |-> TRUE, cities |-> <<>>, query |-> <<>>]
    /\ pc = "scenario1"
    /\ parentDone = FALSE
    /\ ctx = "none"
    /\ timer = "none"
    /\ cancels = 0
    /\ cities = <<>>
    /\ unit = <<>>
    /\ wg = 0
    /\ resultsChan = <<>>
    /\ closer = "none"
    /\ reports = EmptyMap
    /\ httpStatus = 0
    /\ resp = NoResponse
    /\ answer = Empty
    /\ next = 0
    /\ StudyIdle
    /\ crashed = FALSE
    /\ ctxAtCall = "none"

\* ctxCancel, cancelFunc := context.WithCancel(...); go Task_A; time.Sleep(2s)
Scenario1 ==
    /\ entry = ContextExample
    /\ pc = "scenario1"
    /\ scen' = [scen EXCEPT !["A"] = WithCancel]
    /\ task' = [task EXCEPT !["A"].pc = "ready"]
    /\ wake' = now + SleepBeforeCancel
    /\ pc' = "sleep1"
    /\ UNCHANGED <<entry, server, dep, now>>

\* a time.Sleep of main ends
SleepEnds ==
    /\ entry = ContextExample
    /\ pc \in {"sleep1", "sleep2", "sleep3", "sleep4"}
    /\ wake <= now
    /\ pc' = CASE pc = "sleep1" -> "cancelA"
               [] pc = "sleep2" -> "scenario2"
               [] pc = "sleep3" -> "scenario3"
               [] pc = "sleep4" -> "exit"
    /\ UNCHANGED <<entry, server, study>>

\* cancelFunc(); time.Sleep(1s)
CancelA ==
    /\ entry = ContextExample
    /\ pc = "cancelA"
    /\ scen' = [scen EXCEPT !["A"] = Cancel(scen["A"])]
    /\ task' = [task EXCEPT !["A"] = Wake(task["A"], "cancelled")]
    /\ wake' = now + SleepAfterCancel
    /\ pc' = "sleep2"
    /\ UNCHANGED <<entry, server, dep, now>>

\* ctxTimeout, cancelTimeoutFunc := context.WithTimeout(..., 3s); defer;
\* go Task_B; time.Sleep(4s)
Scenario2 ==
    /\ entry = ContextExample
    /\ pc = "scenario2"
    /\ scen' = [scen EXCEPT !["B"] = WithTimeoutAt(now, TimeoutB)]
    /\ task' = [task EXCEPT !["B"].pc = "ready"]
    /\ wake' = now + SleepB
    /\ pc' = "sleep3"
    /\ UNCHANGED <<entry, server, dep, now>>

\* ctxCompleteBeforeTimeout, ... := context.WithTimeout(..., 10s); defer;
\* go Task_C; time.Sleep(6s)
Scenario3 ==
    /\ entry = ContextExample
    /\ pc = "scenario3"
    /\ scen' = [scen EXCEPT !["C"] = WithTimeoutAt(now, TimeoutC)]
    /\ task' = [task EXCEPT !["C"].pc = "ready"]
    /\ wake' = now + SleepC
    /\ pc' = "sleep4"
    /\ UNCHANGED <<entry, server, dep, now>>

\* main returns: the deferred cancel functions run and the process exits,
\* whatever its goroutines were doing
MainExit ==
    /\ entry = ContextExample
    /\ pc = "exit"
    /\ scen' = [scen EXCEPT !["B"] = Cancel(scen["B"]), !["C"] = Cancel(scen["C"])]
    /\ task' = [task EXCEPT !["B"] = Wake(task["B"], "cancelled"),
                            !["C"] = Wake(task["C"], "cancelled")]
    /\ pc' = "exited"
    /\ UNCHANGED <<entry, server, dep, now, wake>>

\* performLongRunningTask reaches its select: time.After(5s) starts now
TaskSelect(t) ==
    /\ entry = ContextExample
    /\ pc # "exited"
    /\ task[t].pc = "ready"
    /\ task' = [task EXCEPT ![t] = EnterSelect(task[t], scen[t].ctx, now)]
    /\ UNCHANGED <<entry, server, dep, pc, now, wake, scen>>

\* the timeout of a scenario's context elapses
CtxTimerFire(t) ==
    /\ entry = ContextExample
    /\ pc # "exited"
    /\ scen[t].timer = "armed"
    /\ scen[t].deadline <= now
    /\ scen' = [scen EXCEPT ![t].timer = "fired", ![t].ctx = "DeadlineExceeded"]
    /\ task' = [task EXCEPT ![t] = Wake(task[t], "cancelled")]
    /\ UNCHANGED <<entry, server, dep, pc, now, wake>>

\* the 5 s of work are over
WorkTimerFire(t) ==
    /\ entry = ContextExample
    /\ pc # "exited"
    /\ task[t].timer = "armed"
    /\ task[t].work <= now
    /\ task' = [task EXCEPT ![t] = [Wake(task[t], "completed") EXCEPT !.timer = "fired"]]
    /\ UNCHANGED <<entry, server, dep, pc, now, wake, scen>>

\* the task prints the outcome of its branch and returns
TaskFinish(t) ==
    /\ entry = ContextExample
    /\ pc # "exited"
    /\ task[t].pc = "woken"
    /\ task' = [task EXCEPT ![t].pc = "done"]
    /\ UNCHANGED <<entry, server, dep, pc, now, wake, scen>>

\* a timer that is due fires before the clock moves on
TimerDue ==
    \/ \E t \in Scenarios : scen[t].timer = "armed" /\ scen[t].deadline <= now
    \/ \E t \in Scenarios : task[t].timer = "armed" /\ task[t].work <= now
    \/ pc \in {"sleep1", "sleep2", "sleep3", "sleep4"} /\ wake <= now

Tick ==
    /\ entry = ContextExample
    /\ pc # "exited"
    /\ now < MaxTime
    /\ ~TimerDue
    /\ now' = now + 1
    /\ UNCHANGED <<entry, server, dep, pc, wake, scen, task>>

----------------------------------------------------------------------------
(* study/channels_goroutines/dependent_goroutines.go *)

InitDependent ==
    /\ entry = Dependent
    /\ req = [method |-> "POST", bodyOK |-> TRUE, cities |-> <<>>, query |-> <<>>]
    /\ pc = "goA"
    /\ parentDone = FALSE
    /\ ctx = "none"
    /\ timer = "none"
    /\ cancels = 0
    /\ cities = <<>>
    /\ unit = <<>>
    /\ wg = 0
    /\ resultsChan = <<>>
    /\ closer = "none"
    /\ reports = EmptyMap
    /\ httpStatus = 0
    /\ resp = NoResponse
    /\ answer = Empty
    /\ next = 0
    /\ StudyIdle
    /\ crashed = FALSE
    /\ ctxAtCall = "none"

\* a loop that ends one turn early
LoopOverOneShort(m) == Cardinality(DOMAIN m) >= NumIDs - 1

\* for i := 1; i <= 5; i++ has ended
LoopOver(m) == Cardinality(DOMAIN m) = NumIDs

\* userIDs[i] = userID + i
PutID(m, i, id) == [k \in DOMAIN m \cup {i} |-> IF k = i THEN id ELSE m[k]]

\* "Details for User %d: Name 'User-%d', Email 'user-%d@example.com'"
Details(id) == <<"Details for User %d: Name 'User-%d', Email 'user-%d@example.com'", id, id, id>>

\* go simulateFetchUserID(userIDsChannel)
GoTaskA ==
    /\ entry = Dependent
    /\ pc = "goA"
    /\ pc' = "goB"
    /\ dep' = [dep EXCEPT !.a = "start"]
    /\ UNCHANGED <<entry, server, now, wake, scen, task>>

\* go simulateFetchUserDetails(userIDsChannel, taskBDoneChannel)
GoTaskB ==
    /\ entry = Dependent
    /\ pc = "goB"
    /\ pc' = "receive"
    /\ dep' = [dep EXCEPT !.b = "receive"]
    /\ UNCHANGED <<entry, server, now, wake, scen, task>>

\* userID := rand.Intn(1000); userIDs := make(map[int]int)
TaskAStart ==
    /\ entry = Dependent
    /\ pc # "exited"
    /\ dep.a = "start"
    /\ \E id \in UserIDChoices :
          dep' = [dep EXCEPT !.a = "loop", !.userID = id, !.userIDs = NoIDs]
    /\ UNCHANGED <<entry, server, pc, now, wake, scen, task>>

\* one turn of Task A's loop: userIDs[i] = userID + i
TaskAFetch ==
    /\ entry = Dependent
    /\ pc # "exited"
    /\ dep.a = "loop"
    /\ ~LoopOver(dep.userIDs)
    /\ LET i == Cardinality(DOMAIN dep.userIDs) + 1 IN
          dep' = [dep EXCEPT !.userIDs = PutID(dep.userIDs, i, dep.userID + i)]
    /\ UNCHANGED <<entry, server, pc, now, wake, scen, task>>

\* done <- userIDs meets userIDs := <-userIDChan: the channel is unbuffered,
\* the send and the receive happen together
HandOver ==
    /\ entry = Dependent
    /\ pc # "exited"
    /\ dep.a = "loop"
    /\ LoopOver(dep.userIDs)
    /\ dep.b = "receive"
    /\ dep' = [dep EXCEPT !.a = "sent", !.b = "range", !.received = dep.userIDs]
    /\ UNCHANGED <<entry, server, pc, now, wake, scen, task>>

\* one turn of for _, userID := range userIDs, in the order the map gives
TaskBFetch ==
    /\ entry = Dependent
    /\ pc # "exited"
    /\ dep.b = "range"
    /\ \E k \in DOMAIN dep.received \ dep.ranged :
          dep' = [dep EXCEPT !.ranged = dep.ranged \cup {k},
                             !.userDetails = Append(dep.userDetails,
                                                    Details(dep.received[k]))]
    /\ UNCHANGED <<entry, server, pc, now, wake, scen, task>>

\* done <- true meets main's <-taskBDoneChannel
SignalDone ==
    /\ entry = Dependent
    /\ pc = "receive"
    /\ dep.b = "range"
    /\ dep.ranged = DOMAIN dep.received
    /\ pc' = "print"
    /\ dep' = [dep EXCEPT !.b = "sent"]
    /\ UNCHANGED <<entry, server, now, wake, scen, task>>

\* simulateFetchUserID returns after its send
TaskAReturn ==
    /\ entry = Dependent
    /\ pc # "exited"
    /\ dep.a = "sent"
    /\ dep' = [dep EXCEPT !.a = "returned"]
    /\ UNCHANGED <<entry, server, pc, now, wake, scen, task>>

\* simulateFetchUserDetails returns after its send
TaskBReturn ==
    /\ entry = Dependent
    /\ pc # "exited"
    /\ dep.b = "sent"
    /\ dep' = [dep EXCEPT !.b = "returned"]
    /\ UNCHANGED <<entry, server, pc, now, wake, scen, task>>

\* main prints its last line and returns: the program exits
DependentExit ==
    /\ entry = Dependent
    /\ pc = "print"
    /\ pc' = "exited"
    /\ UNCHANGED <<entry, server, study>>

----------------------------------------------------------------------------

Init ==
    \/ InitAsync
    \/ InitService
    \/ InitQuery
    \/ InitSequential
    \/ InitProcessQuery
    \/ InitContextExample
    \/ InitDependent

Next ==
    \/ ParentCancel
    \/ TimerFire
    \/ Derive
    \/ CheckMethod
    \/ Decode
    \/ Validate
    \/ Spawn
    \/ SpawnCloser
    \/ Receive
    \/ CollectEnd
    \/ CloserClose
    \/ Respond
    \/ Return
    \/ \E i \in DOMAIN unit : UnitGetData(i)
    \/ \E i \in DOMAIN unit : UnitGetWeather(i)
    \/ \E i \in DOMAIN unit : UnitLookup(i)
    \/ \E i \in DOMAIN unit : UnitSend(i)
    \/ \E i \in DOMAIN unit : UnitDone(i)
    \/ \E i \in DOMAIN unit : UnitPanic(i)
    \/ Extract
    \/ SeqGetWeather
    \/ SeqLookup
    \/ SeqReturn
    \/ Classify
    \/ PQGetData
    \/ PQGetWeather
    \/ PQLookup
    \/ Scenario1
    \/ SleepEnds
    \/ CancelA
    \/ Scenario2
    \/ Scenario3
    \/ MainExit
    \/ \E t \in Scenarios : TaskSelect(t)
    \/ \E t \in Scenarios : CtxTimerFire(t)
    \/ \E t \in Scenarios : WorkTimerFire(t)
    \/ \E t \in Scenarios : TaskFinish(t)
    \/ Tick
    \/ GoTaskA
    \/ GoTaskB
    \/ TaskAStart
    \/ TaskAFetch
    \/ HandOver
    \/ TaskBFetch
    \/ SignalDone
    \/ TaskAReturn
    \/ TaskBReturn
    \/ DependentExit

Spec == Init /\ [][Next]_vars

----------------------------------------------------------------------------
(* Vocabulary of the properties *)

\* the fan-out has returned its map to its caller
AggReturned == entry \in FanoutEntries /\ closer = "closed" /\ pc \notin {"spawn", "collect"}

KeySet == Range(cities)
DistinctKeys == Cardinality(KeySet) = Len(cities)

\* the token fired for a reason other than the caller's own release
Cancelled == parentDone \/ timer = "fired"

Known(k) == ToLower(k) \in DOMAIN weatherData
OwnReport(k) == WeatherReport(k, weatherData[ToLower(k)])

AllUnitsDone == Len(unit) = Len(cities) /\ \A i \in DOMAIN unit : unit[i].pc = "done"

\* a step of the fan-out itself, as opposed to a step of the clock or the client
FanoutStep ==
    \/ Spawn
    \/ SpawnCloser
    \/ Receive
    \/ CollectEnd
    \/ CloserClose
    \/ \E i \in DOMAIN unit :
          UnitGetData(i) \/ UnitGetWeather(i) \/ UnitLookup(i) \/ UnitSend(i) \/ UnitDone(i)

----------------------------------------------------------------------------
\* C1: when every lookup of a non-empty batch succeeds and the token does not
\* fire, the map the fan-out returns has exactly the distinct keys of the
\* batch, each with the report of its own lookup, whatever the interleaving.
C1_ExactMap ==
    (AggReturned /\ cities # <<>> /\ ~Cancelled /\ cancels = 0
        /\ \A k \in KeySet : Known(k))
    => reports = [k \in KeySet |-> OwnReport(k)]

C1_Witness ==
    /\ AggReturned /\ ~Cancelled /\ cancels = 0
    /\ Len(cities) = 2 /\ cities[1] # cities[2]
    /\ \A k \in KeySet : Known(k)
    /\ reports = [k \in KeySet |-> OwnReport(k)]

\* C2 as claimed: once the token has fired the caller is no longer held back
\* by lookups that are still running, so the collecting loop can end there.
C2_ReturnsOnCancel ==
    (entry \in FanoutEntries /\ pc = "collect" /\ Done(ctx)
        /\ \E i \in DOMAIN unit : unit[i].pc = "lookup")
    => ENABLED CollectEnd

\* C2, amended: the fan-out holds its caller until every unit has finished,
\* whether or not the token fires; with a lookup still running after the
\* token fired it keeps waiting, and it returns only once every unit has
\* sent and called Done and the channel is closed, with an entry for every
\* key of the batch.
C2_WaitsForAllUnits ==
    /\ (entry \in FanoutEntries /\ pc = "collect" /\ ~AllUnitsDone) => ~ENABLED CollectEnd
    /\ AggReturned => (AllUnitsDone /\ resultsChan = <<>> /\ DOMAIN reports = KeySet)

C2_Witness ==
    /\ entry \in FanoutEntries /\ pc = "collect" /\ timer = "fired"
    /\ resultsChan = <<>>
    /\ \E i \in DOMAIN unit : unit[i].pc = "lookup"

\* C3: a unit that starts once the token has fired takes the cancelled
\* branch of the select: it returns the empty report with found = false
\* (err # nil through GetData) and never reads the weather table.
C3_FastCancel ==
    [][\A i \in DOMAIN unit :
          (Done(ctx) /\ unit[i].pc = "pending" /\ unit'[i] # unit[i])
          => /\ unit'[i].pc = "returned"
             /\ unit'[i].report = Empty
             /\ ~unit'[i].ok
             /\ ~unit'[i].looked]_vars

C3_Witness ==
    /\ entry = MainAsync
    /\ Done(ctx)
    /\ \E i \in DOMAIN unit :
          unit[i].pc = "returned" /\ unit[i].report = Empty /\ ~unit[i].looked

\* C4: with the token already fired when the fan-out is called, the map
\* returned is empty or holds the skipped placeholder for every key of the
\* batch and nothing else, and no step of the fan-out waits for the timeout:
\* until it has returned, some step of its own is always possible.
C4_PreCancelled ==
    (entry \in FanoutEntries /\ Done(ctxAtCall))
    => /\ AggReturned =>
             \/ reports = EmptyMap
             \/ reports = [k \in KeySet |-> CouldNotBeFound(k)]
       /\ (pc \in {"spawn", "collect"} /\ ~crashed) => ENABLED FanoutStep

C4_Witness ==
    /\ AggReturned /\ Done(ctxAtCall) /\ timer # "fired"
    /\ Len(cities) = 2 /\ cities[1] # cities[2]
    /\ reports = [k \in KeySet |-> CouldNotBeFound(k)]

\* what unit i contributes to the map: its own report if it read the table
\* and found its city, the "could not be found" text otherwise
Expected(i) ==
    IF unit[i].looked /\ Known(cities[i]) THEN OwnReport(cities[i])
                                          ELSE CouldNotBeFound(cities[i])

\* C5: a key whose lookup reports found = false is still in the map, with
\* the "could not be found" text, and every other key keeps the report of
\* its own lookup; the same in the sequential GetWeatherForCities.
C5_NotFoundKept ==
    /\ AggReturned =>
          /\ DOMAIN reports = KeySet
          /\ \A k \in KeySet : \E i \in DOMAIN cities :
                cities[i] = k /\ reports[k] = Expected(i)
          /\ \A i \in DOMAIN unit : ~Known(cities[i]) =>
                reports[cities[i]] = CouldNotBeFound(cities[i])
    /\ (entry = ApiQuery /\ pc \in {"respond", "exit", "done"} /\ cities # <<>>) =>
          /\ DOMAIN reports = KeySet
          /\ \A k \in KeySet :
                /\ ~Known(k) => reports[k] = CouldNotBeFound(k)
                /\ (Known(k) /\ ~Cancelled /\ cancels = 0) => reports[k] = OwnReport(k)

C5_Witness ==
    /\ entry = MainAsync /\ AggReturned
    /\ cities = <<"Lisbon", "Nowhere">>
    /\ reports = [k \in {"Lisbon", "Nowhere"} |->
                     IF k = "Lisbon" THEN OwnReport(k) ELSE CouldNotBeFound(k)]

\* C6: when GetData reports an error for one key, the fan-out goes on: the
\* key gets the "could not be found" text, every unit still runs to its end,
\* and a batch of N known, distinct keys with one error returns N-1 genuine
\* reports and one placeholder.
C6_ErrorSubstituted ==
    (entry \in ViaGetData /\ AggReturned)
    => /\ AllUnitsDone
       /\ DOMAIN reports = KeySet
       /\ \A k \in KeySet : \E i \in DOMAIN cities :
             /\ cities[i] = k
             /\ reports[k] = IF unit[i].ok THEN unit[i].report ELSE CouldNotBeFound(k)
       /\ LET errs == {i \in DOMAIN unit : ~unit[i].ok} IN
          (DistinctKeys /\ Cardinality(errs) = 1
              /\ \A i \in DOMAIN unit \ errs : unit[i].looked /\ Known(cities[i]))
          => /\ Cardinality({k \in KeySet : IsGenuine(reports[k])}) = Len(cities) - 1
             /\ \A i \in errs : reports[cities[i]] = CouldNotBeFound(cities[i])

C6_Witness ==
    /\ entry = Service /\ AggReturned
    /\ Len(cities) = 2 /\ cities[1] # cities[2]
    /\ unit[1].ok /\ unit[1].looked /\ Known(cities[1])
    /\ ~unit[2].ok
    /\ reports[cities[2]] = CouldNotBeFound(cities[2])

\* C7 as claimed: a panic inside a unit is caught at the unit's boundary, so
\* it never takes the process down.
C7_PanicContained == ~crashed

\* C8 as claimed: for an empty batch no goroutine of any kind is spawned and
\* the caller never waits.
C8_NoGoroutineNoWait ==
    (entry = Service /\ cities = <<>>)
    => /\ closer = "none"
       /\ pc = "collect" => ENABLED CollectEnd

\* C8, amended: for an empty batch the fan-out spawns no unit of work and
\* returns the empty map with status 200; it still spawns the closer
\* goroutine, and its collecting loop waits until that goroutine has closed
\* the channel.
C8_EmptyBatch ==
    (entry = Service /\ cities = <<>>)
    => /\ unit = <<>> /\ wg = 0 /\ resultsChan = <<>> /\ reports = EmptyMap
       /\ pc = "collect" => closer # "none"
       /\ (pc = "collect" /\ closer = "waiting") => ~ENABLED CollectEnd
       /\ pc = "done" => (closer = "closed" /\ httpStatus = StatusOK)

C8_Witness == entry = Service /\ cities = <<>> /\ pc = "done" /\ reports = EmptyMap

\* the callers that derive a timeout context
Derivers == AsyncHandlers \cup {ApiQuery, ProcessQuery}

\* C9 as claimed: every caller that derives a token has called its release
\* exactly once when it returns, on every path.
C9_ReleasedOnEveryPath == (entry \in Derivers /\ pc = "done") => cancels = 1

\* C9, amended: a caller has called the release exactly once when it returns
\* on every path that derived the token, and not at all on a path that
\* returns before the derivation (wrong method, undecodable body or empty
\* query in AskMultiCityWeatherFromQueryHandler; a query without "weather"
\* or without a city in ProcessQuery); the async handler derives first, so
\* it releases once on every path.  The release is never called before the
\* return and never twice.
C9_ReleasedOncePerDerive ==
    entry \in Derivers
    => /\ cancels = IF pc = "done" /\ ctx # "none" THEN 1 ELSE 0
       /\ (entry \in AsyncHandlers /\ pc = "done") => cancels = 1
       /\ (pc = "done" /\ cancels = 1) => (Done(ctx) /\ timer # "armed")

C9_Witness ==
    /\ entry = ApiAsync /\ pc = "done" /\ cancels = 1
    /\ resp.code = StatusMethodNotAllowed

\* the token of a scenario of the context example has fired
Fired(t) == Done(scen[t].ctx)

\* the state part of C10: which tokens have fired, and why
TokenState ==
    /\ (entry \in ServerEntries /\ ctx # "none")
       => /\ Done(ctx) <=> (parentDone \/ timer = "fired" \/ cancels > 0)
          /\ timer = "fired" <=> ctx = "DeadlineExceeded"
          /\ timer = "armed" => ~Done(ctx)
    /\ \A t \in Scenarios :
          scen[t].ctx # "none"
          => /\ Fired(t) <=> (scen[t].timer = "fired" \/ scen[t].cancels > 0)
             /\ scen[t].timer = "fired" <=> scen[t].ctx = "DeadlineExceeded"
             /\ scen[t].timer = "fired" => now >= scen[t].deadline
             /\ scen[t].timer = "armed" => (~Fired(t) /\ now <= scen[t].deadline)
    /\ \A t \in Scenarios :
          /\ task[t].pc = "parked" => (~Fired(t) /\ task[t].timer = "armed")
          /\ task[t].branch = "cancelled" => Fired(t)
          /\ task[t].branch = "completed"
             => (task[t].timer = "fired" /\ now >= task[t].work)

\* the step part of C10: a fired token stays fired, and a task whose token
\* has fired, or fires in this step, while its work timer has not, takes the
\* cancelled branch
TokenStep ==
    /\ Done(ctx) => Done(ctx')
    /\ \A t \in Scenarios :
          /\ Fired(t) => Done(scen'[t].ctx)
          /\ (task[t].pc \in {"ready", "parked"} /\ task[t].timer # "fired"
                /\ Done(scen'[t].ctx) /\ task'[t].timer # "fired"
                /\ (task'[t].pc # "ready" \/ task[t].pc = "parked"))
             => (task'[t].pc = "woken" /\ task'[t].branch = "cancelled")
          /\ task[t].branch # "none" => task'[t].branch = task[t].branch

\* C10: a derived token has fired exactly when its parent has fired, its
\* timeout has elapsed or its release has been called, the first of the
\* three deciding its error, and it stays fired; a task that selects on the
\* token and on its own work timer takes the cancelled branch whenever the
\* token fires before the work timer does, and the completed branch only
\* once its work timer has fired.
C10_TokenFires == []TokenState /\ [][TokenStep]_vars

C10_Witness ==
    /\ entry = ContextExample
    /\ task["A"].branch = "cancelled" /\ scen["A"].cancels = 1
    /\ task["B"].branch = "cancelled" /\ scen["B"].timer = "fired"
    /\ task["C"].branch = "completed" /\ ~Fired("C")

----------------------------------------------------------------------------
\* C11: the result map of a fan-out is written by the collecting caller
\* alone: a step that changes the map is a turn of the range loop, which
\* takes the head of the channel and stores its report under its city,
\* leaving every other entry and every unit as it was; no step of a unit
\* changes the map, under every interleaving.
C11_SingleWriter ==
    [][(entry \in FanoutEntries /\ reports' # reports)
       => /\ pc = "collect" /\ pc' = "collect"
          /\ unit' = unit /\ wg' = wg /\ closer' = closer
          /\ resultsChan # <<>> /\ resultsChan' = Tail(resultsChan)
          /\ DOMAIN reports' = DOMAIN reports \cup {Head(resultsChan).City}
          /\ reports'[Head(resultsChan).City] = Head(resultsChan).Report
          /\ \A k \in DOMAIN reports \ {Head(resultsChan).City} :
                reports'[k] = reports[k]]_vars

C11_Witness ==
    /\ entry \in FanoutEntries /\ pc = "collect"
    /\ Cardinality(DOMAIN reports) = 1
    /\ \E i \in DOMAIN unit : unit[i].pc = "lookup"

----------------------------------------------------------------------------
\* the map of a batch whose every lookup ran: a function of the key set
BatchMap(K) == [k \in K |-> IF Known(k) THEN OwnReport(k) ELSE CouldNotBeFound(k)]

\* the map of a batch whose every lookup was skipped
SkippedMap(K) == [k \in K |-> CouldNotBeFound(k)]

\* C12: the map a fan-out returns is a function of its set of keys and of
\* the lookup alone, not of the order in which the units ran, sent or were
\* merged: with the context live throughout it is BatchMap of the keys, with
\* the context done from the start it is SkippedMap of the keys.  Two runs on
\* the same keys with the same lookup therefore return equal maps.
C12_SameKeysSameMap ==
    AggReturned
    => /\ ~Cancelled => reports = BatchMap(KeySet)
       /\ Done(ctxAtCall) => reports = SkippedMap(KeySet)

C12_Witness ==
    /\ entry = Service /\ AggReturned /\ ~Cancelled
    /\ Len(cities) = 2 /\ ~Known(cities[1]) /\ Known(cities[2])
    /\ reports = BatchMap(KeySet)

----------------------------------------------------------------------------
\* the phase of a unit: its goroutine not yet run, inside its call, or back
\* from it with a report of the table (Completed) or without (Skipped)
Phase(u) ==
    CASE u.pc = "pending" -> "Pending"
      [] u.pc \in {"call", "lookup"} -> "Running"
      [] u.pc \in {"returned", "sent", "done"} /\ u.looked -> "Completed"
      [] OTHER -> "Skipped"

Terminal(u) == Phase(u) \in {"Completed", "Skipped"}

\* how far a unit is in its goroutine
Rank(u) ==
    CASE u.pc = "pending" -> 0
      [] u.pc = "call" -> 1
      [] u.pc = "lookup" -> 2
      [] u.pc = "returned" -> 3
      [] u.pc = "sent" -> 4
      [] u.pc = "done" -> 5

UnitPhases ==
    \A i \in DOMAIN unit :
        /\ unit[i].looked => Terminal(unit[i])
        /\ Phase(unit[i]) = "Skipped" => unit[i].report \in {Empty, CouldNotBeFound(cities[i])}

UnitPhaseStep ==
    \A i \in DOMAIN unit :
        /\ i \in DOMAIN unit'
        /\ Rank(unit'[i]) >= Rank(unit[i])
        /\ <<Phase(unit[i]), Phase(unit'[i])>> \in
              {<<"Pending", "Pending">>, <<"Pending", "Running">>, <<"Pending", "Skipped">>,
               <<"Running", "Running">>, <<"Running", "Completed">>, <<"Running", "Skipped">>,
               <<"Completed", "Completed">>, <<"Skipped", "Skipped">>}
        /\ Terminal(unit[i]) =>
              /\ unit'[i].report = unit[i].report
              /\ unit'[i].ok = unit[i].ok
              /\ unit'[i].looked = unit[i].looked

\* C13: a unit moves only from Pending to Running and from there to
\* Completed or Skipped (a unit that finds the context done at its first
\* step passes through Running within that step); it never goes back, a
\* report of the table is held only by a Completed unit, and a unit that is
\* Completed or Skipped stays so with the outcome it has.
C13_UnitStateMachine == []UnitPhases /\ [][UnitPhaseStep]_vars

C13_Witness ==
    /\ Len(unit) = 2
    /\ Phase(unit[1]) = "Completed" /\ unit[1].pc = "done"
    /\ Phase(unit[2]) = "Skipped" /\ unit[2].pc = "done"

----------------------------------------------------------------------------
\* the state a batch ends in, read from ctx.Err() when the fan-out returns
BatchOutcome(c) ==
    CASE c = "live" -> "AllCompleted"
      [] c = "DeadlineExceeded" -> "TimedOut"
      [] c = "Canceled" -> "ExternallyCancelled"
      [] OTHER -> "none"

Collecting == entry \in FanoutEntries /\ pc \in {"spawn", "collect"}

\* the step in which the fan-out returns its map
BatchEnds ==
    (Collecting /\ ~Collecting')
    => /\ BatchOutcome(ctx) \in {"AllCompleted", "TimedOut", "ExternallyCancelled"}
       /\ DOMAIN reports = KeySet
       /\ reports' = reports
       /\ \A k \in KeySet : reports[k] \in {BatchMap(KeySet)[k], CouldNotBeFound(k)}
       /\ BatchOutcome(ctx) = "AllCompleted"
          => /\ \A i \in DOMAIN unit : Phase(unit[i]) = "Completed"
             /\ reports = BatchMap(KeySet)
       /\ (\E i \in DOMAIN unit : Phase(unit[i]) = "Skipped")
          => BatchOutcome(ctx) \in {"TimedOut", "ExternallyCancelled"}

\* a batch that has ended stays ended, with the map it returned
BatchStaysEnded ==
    AggReturned => (AggReturned' /\ reports' = reports /\ unit' = unit)

----------------------------------------------------------------------------
\* C15 as claimed: the answer of the single-city paths (ProcessQuery,
\* askHandler) for a city is the report a fan-out stores for that city:
\* the report of the lookup with the context live, the "could not be found"
\* text for a city not found and for a call skipped by cancellation.
C15_SingleAsBatchOfOne ==
    (entry \in SingleCity /\ pc = "done" /\ cities # <<>>)
    => /\ answer \in {BatchMap({cities[1]})[cities[1]], SkippedMap({cities[1]})[cities[1]]}
       /\ ~Cancelled => answer = BatchMap({cities[1]})[cities[1]]

----------------------------------------------------------------------------
\* C16: a fan-out over a non-empty batch returns status 200 and its handler
\* answers 200 with the map, however many of its keys were not found, came
\* back with an error or were skipped by cancellation.
C16_BatchStatusOK ==
    (AggReturned /\ cities # <<>>)
    => /\ entry \in ViaGetData => httpStatus = StatusOK
       /\ (entry \in AsyncHandlers /\ pc \in {"exit", "done"})
          => resp = ReportsResponse(StatusOK, reports)

C16_Witness ==
    /\ entry = ApiAsync /\ pc = "done"
    /\ Len(unit) = 2
    /\ unit[1].looked /\ ~Known(cities[1])
    /\ ~unit[2].ok
    /\ resp.code = StatusOK /\ resp.kind = "reports"

----------------------------------------------------------------------------
\* a well-formed request that names no city
EmptyInput ==
    /\ req.method = "POST" /\ req.bodyOK
    /\ IF entry \in AsyncHandlers THEN req.cities = <<>>
                                  ELSE ExtractCitiesFromQuery(req.query) = <<>>

\* C17 as claimed: every batch endpoint answers a request that names no city
\* (an empty list, an empty query, or a query in which no city is found) with
\* a client error and never with 200.
C17_EmptyInputRejected ==
    (entry \in AsyncHandlers \cup QueryHandlers /\ pc = "done" /\ EmptyInput)
    => resp.code = StatusBadRequest

----------------------------------------------------------------------------
\* C18: cancellation goes from the context to the units and never back: a
\* step in which a unit moves leaves the context, its timer, the request's
\* context and the release count as they were, and moves no other unit, so
\* no outcome of one unit changes what another unit finds in the context.
C18_TopDownOnly ==
    [][(unit' # unit)
       => /\ UNCHANGED <<parentDone, ctx, timer, cancels>>
          /\ \A i, j \in DOMAIN unit :
                (i # j /\ unit'[i] # unit[i]) => unit'[j] = unit[j]]_vars

C18_Witness ==
    /\ entry = MainAsync /\ ctx = "live"
    /\ Len(unit) = 2
    /\ unit[1].pc = "done" /\ ~unit[1].ok
    /\ unit[2].pc = "pending"

----------------------------------------------------------------------------
\* a step of some unit of work
UnitStep ==
    \E i \in DOMAIN unit :
        \/ UnitGetData(i) \/ UnitGetWeather(i) \/ UnitLookup(i)
        \/ UnitSend(i) \/ UnitDone(i) \/ UnitPanic(i)

\* C19: the map reaches the caller only once the fan-out has ended: while it
\* is collecting no response has been written, and when it returns every
\* unit has sent its result and called Done, the channel is drained, every
\* result sent has been stored in the map or overwritten there by a unit of
\* the same city, and no unit and no turn of the collecting loop can still
\* take a step.
C19_NothingOutlivesTheBatch ==
    /\ (Collecting /\ entry \in AsyncHandlers) => resp = NoResponse
    /\ AggReturned
       => /\ wg = 0 /\ resultsChan = <<>>
          /\ \A i \in DOMAIN cities :
                /\ i \in DOMAIN unit /\ unit[i].pc = "done"
                /\ \E j \in DOMAIN unit :
                      /\ cities[j] = cities[i]
                      /\ reports[cities[i]] = SentReport(cities[j], unit[j])
          /\ ~ENABLED UnitStep
          /\ ~ENABLED Receive

C19_Witness ==
    /\ entry = ApiAsync /\ pc = "respond" /\ resp = NoResponse
    /\ Len(unit) = 2 /\ wg = 0 /\ closer = "closed"
    /\ Cardinality(DOMAIN reports) = 2

----------------------------------------------------------------------------
\* the units of the occurrences of key k
UnitsOf(k) == {i \in DOMAIN unit : cities[i] = k}

DuplicateKeysState ==
    entry \in FanoutEntries
    => /\ (pc = "collect" \/ AggReturned) => Len(unit) = Len(cities)
       /\ AggReturned
          => /\ DOMAIN reports = KeySet
             /\ \A k \in KeySet :
                   reports[k] \in {SentReport(k, unit[i]) : i \in UnitsOf(k)}

DuplicateKeysStep ==
    (entry \in FanoutEntries /\ pc = "collect" /\ resultsChan' # resultsChan
        /\ Len(resultsChan') < Len(resultsChan))
    => reports'[Head(resultsChan).City] = Head(resultsChan).Report

\* C20: a key that occurs more than once gets one unit per occurrence; each
\* of them sends under the same key, every merge overwrites the entry of
\* that key, and the map returned has one entry for the key, holding the
\* report of one of its units.
C20_DuplicateKeys == []DuplicateKeysState /\ [][DuplicateKeysStep]_vars

C20_Witness ==
    /\ AggReturned
    /\ Len(cities) = 2 /\ cities[1] = cities[2] /\ Known(cities[1])
    /\ Len(unit) = 2
    /\ DOMAIN reports = {cities[1]}
    /\ reports[cities[1]] = CouldNotBeFound(cities[1])
    /\ \E i \in DOMAIN unit : IsGenuine(SentReport(cities[i], unit[i]))

----------------------------------------------------------------------------
\* the unit has sent its result
Sent(u) == u.pc \in {"sent", "done"}

NewlySent == {i \in DOMAIN unit : ~Sent(unit[i]) /\ Sent(unit'[i])}

OneResultPerUnitState ==
    entry \in FanoutEntries
    => /\ Len(unit) <= Len(cities)
       /\ Len(resultsChan) <= Cardinality({i \in DOMAIN unit : Sent(unit[i])})
       /\ AggReturned => Cardinality({i \in DOMAIN unit : Sent(unit[i])}) = Len(cities)

OneResultPerUnitStep ==
    /\ \A i \in DOMAIN unit :
          /\ (unit'[i].looked /\ ~unit[i].looked)
             => (unit[i].pc = "lookup" /\ unit'[i].pc = "returned")
          /\ unit[i].looked => (unit'[i].looked /\ unit'[i].pc \notin {"pending", "call", "lookup"})
          /\ Sent(unit[i]) => Sent(unit'[i])
    /\ Len(resultsChan') > Len(resultsChan)
       => \E i \in NewlySent :
             /\ NewlySent = {i}
             /\ resultsChan' = Append(resultsChan,
                   [City |-> cities[i], Report |-> SentReport(cities[i], unit'[i])])
    /\ NewlySent # {} => Len(resultsChan') = Len(resultsChan) + 1

\* C21: a unit reads the weather table at most once, in the one step from
\* its lookup to its return, and never calls again; it sends once, every
\* send puts exactly one message for the unit's own city on the channel, and
\* when the fan-out returns the units that have sent are as many as the
\* cities of the batch.
C21_OneResultPerUnit == []OneResultPerUnitState /\ [][OneResultPerUnitStep]_vars

C21_Witness ==
    /\ entry = MainAsync /\ AggReturned
    /\ Len(cities) = 2 /\ cities[1] = cities[2]
    /\ \A i \in DOMAIN unit : Sent(unit[i]) /\ unit[i].looked

----------------------------------------------------------------------------
(* C22 *)

\* the closer goroutine has executed close(resultsChan)
Closed == closer = "closed"

\* the step in which close(resultsChan) is executed
Closes == ~Closed /\ Closed'

\* the step in which the range loop over resultsChan ends
CollectorStops == entry \in FanoutEntries /\ pc = "collect" /\ pc' # "collect"

\* on a closed channel every unit has sent and called Done, so no unit is
\* left that could send
ClosedState ==
    (entry \in FanoutEntries /\ Closed) =>
        /\ Len(unit) = Len(cities)
        /\ \A i \in DOMAIN unit : unit[i].pc = "done"
        /\ wg = 0
        /\ \A i \in DOMAIN unit : ~ENABLED UnitSend(i)

\* the channel is closed by the waiting closer only, when every unit is done;
\* it stays closed; no step sends on it after that; and the collector stops
\* on the closed, drained channel with one entry per key sent
ClosedStep ==
    /\ Closes => /\ closer = "waiting"
                 /\ Len(unit) = Len(cities)
                 /\ \A i \in DOMAIN unit : unit[i].pc = "done"
    /\ Closed => Closed' /\ NewlySent = {} /\ Len(resultsChan') <= Len(resultsChan)
    /\ CollectorStops => /\ Closed
                         /\ resultsChan = <<>>
                         /\ \A i \in DOMAIN unit : Sent(unit[i])
                         /\ DOMAIN reports = KeySet

\* C22: the results channel is closed exactly once, only after every unit of
\* work has sent its result and called Done; no unit sends on it after it is
\* closed, and the collector stops reading only after it has received every
\* result that was sent.
C22_ClosedOnceAfterAllSent == []ClosedState /\ [][ClosedStep]_vars

\* a batch of two whose channel was closed and whose collector has stopped
C22_Witness ==
    /\ entry = Service
    /\ Closed
    /\ pc = "done"
    /\ Len(cities) = 2
    /\ cities[1] # cities[2]
    /\ ~crashed

----------------------------------------------------------------------------
(* C23 *)

\* unit i has its result and stands at its send
AtSend(i) == unit[i].pc = "returned"

\* C23: the results channel is buffered with capacity len(cities), so the
\* number of buffered results never exceeds the capacity and a unit standing
\* at its send is never blocked: there is a free slot and the channel is
\* open, whether or not the collector has started receiving.
C23_SendNeverBlocks ==
    (entry \in FanoutEntries /\ ~crashed) =>
        /\ Len(resultsChan) <= Capacity
        /\ \A i \in DOMAIN unit :
              AtSend(i) => /\ Len(resultsChan) < Capacity
                           /\ ~Closed
                           /\ ENABLED UnitSend(i)

\* the buffer is full before the collector has started its loop
C23_Witness ==
    /\ entry = MainAsync
    /\ pc = "spawn"
    /\ Len(cities) = 2
    /\ Len(resultsChan) = Capacity
    /\ \A i \in DOMAIN unit : Sent(unit[i])

----------------------------------------------------------------------------
(* C24: the fan-out under fair scheduling *)

\* the lists the fair runs are given: of a city the table knows and of one
\* it does not know
FairBatches == {c \in Batches : Range(c) \subseteq {"Lisbon", "Nowhere"}}

\* the two fan-outs, each started on any of these lists: main.go's handler
\* and GetMultiCityWeather called directly
InitFanout ==
    /\ InitAsync \/ InitService
    /\ entry \in {MainAsync, Service}
    /\ req.cities \in FairBatches

\* the steps of the goroutine that calls the fan-out
CallerRuns ==
    \/ Derive
    \/ CheckMethod
    \/ Decode
    \/ Validate
    \/ Spawn
    \/ SpawnCloser
    \/ Receive
    \/ CollectEnd
    \/ Respond
    \/ Return

\* the steps of the goroutine of cities[i]
UnitRuns(i) ==
    /\ i \in DOMAIN unit
    /\ \/ UnitGetData(i)
       \/ UnitGetWeather(i)
       \/ UnitLookup(i)
       \/ UnitSend(i)
       \/ UnitDone(i)

\* the fan-out in which every lookup call returns: the panic of the lookup
\* is left out; the client and the timer act when they like
NextFanout ==
    \/ ParentCancel
    \/ TimerFire
    \/ Derive
    \/ CheckMethod
    \/ Decode
    \/ Validate
    \/ Spawn
    \/ SpawnCloser
    \/ Receive
    \/ CollectEnd
    \/ CloserClose
    \/ Respond
    \/ Return
    \/ \E i \in DOMAIN unit : UnitGetData(i)
    \/ \E i \in DOMAIN unit : UnitGetWeather(i)
    \/ \E i \in DOMAIN unit : UnitLookup(i)
    \/ \E i \in DOMAIN unit : UnitSend(i)
    \/ \E i \in DOMAIN unit : UnitDone(i)

\* the Go scheduler runs every goroutine that is able to run: the caller, the
\* closer and each unit; nothing is assumed of the client or of the timer
FairSpec ==
    /\ InitFanout
    /\ [][NextFanout]_vars
    /\ WF_vars(CallerRuns)
    /\ WF_vars(CloserClose)
    /\ \A i \in 1..MaxCities : WF_vars(UnitRuns(i))

\* the caller has returned and no goroutine of the fan-out is left: every
\* unit has finished, the closer is not waiting, the channel is drained
Quiescent ==
    /\ pc = "done"
    /\ ~crashed
    /\ \A i \in DOMAIN unit : unit[i].pc = "done"
    /\ closer # "waiting"
    /\ resultsChan = <<>>
    /\ wg = 0

\* C24: provided every lookup call returns, the aggregator always terminates:
\* under fair scheduling a fan-out that has started always returns, with every
\* unit finished, the channel closed by the closer and the collector loop
\* ended; and every run ends with the caller returned and no goroutine
\* blocked, whatever the interleaving of units, closer and collector.
C24_AlwaysTerminates ==
    /\ Collecting ~> (AggReturned /\ AllUnitsDone /\ Closed /\ resultsChan = <<>>)
    /\ <>[]Quiescent

\* a fan-out of two that has returned to a handler that has returned, after
\* the client went away
C24_Witness ==
    /\ entry = MainAsync
    /\ Quiescent
    /\ AggReturned
    /\ Len(cities) = 2
    /\ parentDone

----------------------------------------------------------------------------
(* C25 *)

\* the batch paths: the two fan-outs, the service call, the sequential batch
BatchEntries == FanoutEntries \cup SeqEntries

\* unit u came back without a report of its own: it was skipped because the
\* token had fired, or its lookup reported not-found
Skipped(u) == ~u.looked
NotFound(u) == u.looked /\ ~u.ok

\* the sequential loop stores the report of cities[next] in this step
SeqStores == entry \in SeqEntries /\ pc \in {"loop", "lookup"} /\ next' = next + 1

\* every entry of a batch map that is not a weather report is the one
\* placeholder made from its key
OnePlaceholderState ==
    entry \in BatchEntries =>
        \A k \in DOMAIN reports : IsGenuine(reports[k]) \/ reports[k] = CouldNotBeFound(k)

\* a skipped unit and a unit whose lookup reported not-found send the same
\* placeholder, and the sequential loop stores that placeholder for a skipped
\* city and for an unknown city alike
OnePlaceholderStep ==
    /\ \A i \in NewlySent :
          (Skipped(unit[i]) \/ NotFound(unit[i]))
             => resultsChan'[Len(resultsChan')].Report = CouldNotBeFound(cities[i])
    /\ SeqStores =>
          ((pc = "loop" \/ ~Known(cities[next]))
             => reports'[cities[next]] = CouldNotBeFound(cities[next]))

\* C25: in the batch path a key skipped because the token fired gets the same
\* "could not be found" placeholder as a key whose lookup reported not-found,
\* so the returned map does not tell a cancelled key from an unknown one.
C25_CancelledLooksUnknown == []OnePlaceholderState /\ [][OnePlaceholderStep]_vars

\* a map returned by main.go's fan-out in which a known city, skipped, and an
\* unknown city, looked up, both carry the placeholder
C25_Witness ==
    /\ entry = MainAsync
    /\ AggReturned
    /\ Len(cities) = 2
    /\ Known(cities[1]) /\ Skipped(unit[1])
    /\ ~Known(cities[2]) /\ NotFound(unit[2])
    /\ \A k \in KeySet : reports[k] = CouldNotBeFound(k)

----------------------------------------------------------------------------
(* C26 *)

\* GetWeatherForCities has returned to its caller
SeqReturned == entry \in SeqEntries /\ next > Len(cities) /\ pc \notin {"loop", "lookup"}

\* the returned map has one entry per distinct city of the list, the error is
\* nil, and no caller answers through its error branch; a list given with a
\* token that had already fired gets the placeholder for every city
SeqMapState ==
    /\ SeqReturned =>
          /\ DOMAIN reports = KeySet
          /\ Cardinality(DOMAIN reports) = Cardinality(KeySet)
          /\ Cardinality(DOMAIN reports) <= Len(cities)
          /\ ~GetWeatherForCitiesErr
          /\ httpStatus = StatusOK
          /\ (entry = Sequential /\ Done(ctxAtCall))
                => \A k \in KeySet : reports[k] = CouldNotBeFound(k)
    /\ entry \in SeqEntries =>
          /\ httpStatus # StatusInternalServerError
          /\ resp.code # StatusInternalServerError

\* a token that has fired stays fired, no lookup starts after that (the one
\* already past its select ends with its own result), and every turn of the
\* loop that finds the token fired stores the placeholder for its city
SeqMapStep ==
    entry \in SeqEntries =>
        /\ Done(ctx) => Done(ctx')
        /\ (pc = "loop" /\ Done(ctx)) => pc' # "lookup"
        /\ (SeqStores /\ pc = "loop")
              => /\ Done(ctx)
                 /\ reports'[cities[next]] = CouldNotBeFound(cities[next])
        /\ SeqStores => /\ DOMAIN reports' = DOMAIN reports \cup {cities[next]}
                        /\ \A k \in DOMAIN reports \ {cities[next]} : reports'[k] = reports[k]

\* C26: the sequential batch GetWeatherForCities returns, for every list and
\* every state of the token, a map with exactly one entry per distinct city
\* and a nil error, so its callers never take their error branch; once the
\* token has fired part-way through the loop, every remaining city gets the
\* placeholder.
C26_SequentialBatch == []SeqMapState /\ [][SeqMapStep]_vars

\* a list of two known cities of which the first got its report and the
\* second, after the token fired, the placeholder
C26_Witness ==
    /\ entry = Sequential
    /\ SeqReturned
    /\ Len(cities) = 2
    /\ cities[1] # cities[2]
    /\ Known(cities[1]) /\ Known(cities[2])
    /\ IsGenuine(reports[cities[1]])
    /\ reports[cities[2]] = CouldNotBeFound(cities[2])

----------------------------------------------------------------------------
(* C27 *)

\* the complete user-ID map of Task A: userID + i for i = 1..5
CompleteIDs(id) == [i \in 1..NumIDs |-> id + i]

\* Task A has sent its map: its send, its last statement, is behind it
TaskASent == dep.a \in {"sent", "returned"}

\* Task B has begun to fetch details: it is past its receive
TaskBFetching == dep.b \in {"range", "sent", "returned"}

\* Task B has signalled completion: its send, its last statement, is behind it
TaskBSignalled == dep.b \in {"sent", "returned"}

\* main is past <-taskBDoneChannel
MainPastReceive == entry = Dependent /\ pc \in {"print", "exited"}

\* Task B fetches only from the complete map Task A has sent, and main is
\* past its receive only when Task B has signalled, with the details of all
\* the IDs fetched and Task A complete
DependentState ==
    entry = Dependent =>
        /\ (TaskBFetching \/ dep.userDetails # <<>>)
              => /\ TaskASent
                 /\ dep.userIDs = CompleteIDs(dep.userID)
                 /\ dep.received = dep.userIDs
        /\ ~TaskBFetching => dep.ranged = {} /\ dep.userDetails = <<>>
        /\ MainPastReceive
              => /\ TaskBSignalled
                 /\ TaskASent
                 /\ Len(dep.userDetails) = NumIDs
                 /\ {dep.userDetails[j] : j \in 1..NumIDs}
                       = {Details(dep.userID + i) : i \in 1..NumIDs}

\* the hand-over is one step for both tasks, and so is the signal for Task B
\* and main; the map sent is not changed afterwards
DependentStep ==
    entry = Dependent =>
        /\ (~TaskASent /\ TaskASent') <=> (~TaskBFetching /\ TaskBFetching')
        /\ (~TaskBSignalled /\ TaskBSignalled') <=> (~MainPastReceive /\ MainPastReceive')
        /\ TaskASent => dep.userIDs' = dep.userIDs /\ dep.received' = dep.received
        /\ (pc' = "exited" /\ pc # "exited") => TaskASent /\ TaskBSignalled

\* C27: in the dependent-goroutines program Task B starts fetching details
\* only after Task A has sent the complete user-ID map on the unbuffered
\* channel, and main proceeds past its receive only after Task B has
\* signalled completion, so both tasks have completed before the program
\* exits, under every interleaving.
C27_DependentOrder == []DependentState /\ [][DependentStep]_vars

\* the program has exited after both tasks completed, Task B having ranged
\* over the map from its last key
C27_Witness ==
    /\ entry = Dependent
    /\ pc = "exited"
    /\ TaskASent
    /\ TaskBSignalled
    /\ dep.userID = 999
    /\ dep.userDetails[1] = Details(dep.userID + NumIDs)

====
